---- MODULE Spec2Model ----
(***************************************************************************)
(* Model of the OpenRouter client (src/openrouter_client.py): the cost     *)
(* accountant embedded in OpenRouterClient and the lazy streaming          *)
(* generators, as seen by a single-threaded caller, and of the interactive *)
(* mode of the CLI (src/ai_researcher.py) on top of it.                    *)
(*                                                                         *)
(* Money is counted in nano-dollars (1e-9 USD), so that every rate of the  *)
(* pricing table is an integer per token: a rate of r USD per 1K tokens is *)
(* r * 1e6 nano-dollars per token, and (tokens / 1000) * r USD is          *)
(* tokens * (r * 1e6) nano-dollars.                                        *)
(*                                                                         *)
(* Six specifications share the operations:                                *)
(*   Spec          any mix of all operations, on a sample of the inputs;   *)
(*   SpecCall      the non-streaming calls, on every shape of response;    *)
(*   SpecStream    the streaming calls, on every fragment and usage chunk; *)
(*   SpecResearch  the research wrappers and the operations they delegate  *)
(*                 to, on every query and message list;                    *)
(*   SpecInteractive  an interactive session, on every line typed;         *)
(*   SpecEstimate  _estimate_cost on every model id and token count.       *)
(***************************************************************************)
EXTENDS Integers, Sequences, FiniteSets, TLC

\* ------------------------------------------------------------------ bounds

\* Remote calls (chat.completions.create) one client makes in a run.
MaxRequests == 2
\* Text fragments one stream yields.
MaxFragments == 2
\* Remote calls of a run in which every shape of response is tried.
MaxCalls == 1
\* Remote calls of a run in which every fragment and usage chunk is tried.
MaxStreams == 1
\* Remote calls of a run in which every query and message list is tried.
MaxQueries == 1
\* Lines an interactive session reads.
MaxLines == 3

\* ------------------------------------------------------------- input sets

\* Model ids the caller passes: one of the pricing table, one outside it.
ModelIds == {"openai/gpt-4o-mini", "unknown/model"}

\* The model id of runs of several requests.
SampleModelIds == {"openai/gpt-4o-mini"}

\* Every model id the estimator is checked on: the table's nine and a stranger.
AllModelIds ==
    {"x-ai/grok-4-fast", "x-ai/grok-4", "anthropic/claude-3.5-sonnet",
     "anthropic/claude-3-haiku", "openai/gpt-4o", "openai/gpt-4o-mini",
     "google/gemini-pro", "meta-llama/llama-3.1-8b-instruct",
     "meta-llama/llama-3.1-70b-instruct", "unknown/model"}

\* Errors the remote call (or a later read of the stream) raises.
RemoteErrors == {"APIConnectionError", "APIStatusError"}

\* Exact costs the remote may report, in nano-dollars (-0.0005, 0, 0.0025 USD).
CostValues == {0 - 500000, 0, 2500000}

\* Token counts the estimator is checked on.
TokenCounts == {0, 1, 7, 1000}

\* Text fragments, as sequences of characters: "a", " b", "a  b", " ".
Fragments == {<<"a">>, <<" ", "b">>, <<"a", " ", " ", "b">>, <<" ">>}

\* The fragment streamed in runs of several requests: "a b".
SampleFragments == {<<"a", " ", "b">>}

\* A text is a sequence of pieces: of characters, where the characters matter.
\* The queries the caller asks: "a", "b a".
Queries == {<<"a">>, <<"b", " ", "a">>}

\* The query of runs of several requests.
SampleQueries == {<<"a">>}

\* The image and the prompt of analyze_image and analyze_image_stream.
ImageUrls == {<<"u">>}

Prompts == {<<"p">>}

\* The texts a non-streaming response brings: "a", "b ".
Texts == {<<"a">>, <<"b", " ">>}

\* The text of the responses of runs of several requests.
SampleTexts == {<<"a">>}

\* The lines typed at the prompt of interactive_mode: "quit", "exit", "q",
\* "Exit", " q ", "", " ", "a", " a ", "q a".
InputLines ==
    {<<"q", "u", "i", "t">>, <<"e", "x", "i", "t">>, <<"q">>, <<"E", "x", "i", "t">>,
     <<" ", "q", " ">>, <<>>, <<" ">>, <<"a">>, <<" ", "a", " ">>, <<"q", " ", "a">>}

\* The model a call that names none is given.
DefaultModel == "x-ai/grok-4-fast"

\* A message of the list given to create(): a role and a text, and the image
\* that goes with the text (<<>> for a message of text alone).
Message(role, content, image_url) ==
    [role |-> role, content |-> content, image_url |-> image_url]

\* The system instruction of the research wrappers.
ResearchInstruction ==
    <<"You are an AI research assistant. Provide detailed, accurate, and well-structured responses to research queries.">>

\* A slip: the query sent alone, without the system instruction.
ResearchMessagesBare(query) == <<Message("user", query, <<>>)>>

\* messages of research_query and research_query_stream.
ResearchMessages(query) ==
    <<Message("system", ResearchInstruction, <<>>), Message("user", query, <<>>)>>

\* messages of analyze_image and analyze_image_stream: one user message with
\* the prompt and the image.
ImageMessages(image_url, prompt) == <<Message("user", prompt, image_url)>>

\* The message lists the caller gives to chat_completion and
\* chat_completion_stream: a lone user message, and the lists the research
\* wrappers build.
MessageLists ==
    {<<Message("user", q, <<>>)>> : q \in Queries} \cup {ResearchMessages(q) : q \in Queries}

\* The message list of runs of several requests.
SampleMessageLists == {<<Message("user", <<"a">>, <<>>)>>}

\* The keyword arguments of a call of chat.completions.create (stream is False
\* when the call leaves it out); NoRequest when create() was not called.
NoRequest == [sent |-> FALSE, model |-> "none", messages |-> <<>>, stream |-> FALSE]

CreateKwargs(model, messages, stream) ==
    [sent |-> TRUE, model |-> model, messages |-> messages, stream |-> stream]

\* ------------------------------------------------------- remote responses

\* response.usage of a non-streaming response.
NoUsageInfo ==
    [has_usage |-> FALSE, prompt_tokens |-> 0, completion_tokens |-> 0,
     total_tokens |-> 0, has_cost |-> FALSE, cost |-> 0]

ResponseUsages ==
    {[kind |-> "absent", prompt_tokens |-> 0, completion_tokens |-> 0, total_tokens |-> 0],
     [kind |-> "malformed", prompt_tokens |-> 0, completion_tokens |-> 0, total_tokens |-> 0],
     [kind |-> "ok", prompt_tokens |-> 1000, completion_tokens |-> 2000, total_tokens |-> 3000]}

\* response.extra_body, by what the code finds on the way to cost.total:
\*   absent        no extra_body attribute, or a falsy one, or no 'cost' in it
\*   nondict       extra_body is a truthy value without .get
\*   cost_nondict  extra_body['cost'] is a truthy value without .get
\*   total_absent  extra_body['cost'] is a non-empty dict without 'total'
\*   total_none    extra_body['cost']['total'] is None
\*   total_badstr  ... is a string float() cannot parse
\*   total_hugeint ... is an integer too large for a float
\*   num           ... is a number (or a numeric string) of value v
BodyCosts ==
    [kind : {"absent", "nondict", "cost_nondict", "total_absent", "total_none",
             "total_badstr", "total_hugeint"}, v : {0}]
    \cup [kind : {"num"}, v : CostValues]

\* response.response_headers, by what the code finds on the way to x-cost:
\*   absent   no response_headers attribute
\*   none     response_headers is None
\*   missing  no (or an empty) x-cost header
\*   badstr   an x-cost header float() cannot parse
\*   num      an x-cost header that parses to v
HeaderCosts ==
    [kind : {"absent", "none", "missing", "badstr"}, v : {0}]
    \cup [kind : {"num"}, v : CostValues]

Responses == [usage : ResponseUsages, body_cost : BodyCosts, header_cost : HeaderCosts]

\* The responses tried in runs of several requests: a well-formed usage or none,
\* and a cost in at most one of the two places.
SampleResponses ==
    {r \in Responses :
        /\ r.usage.kind # "malformed"
        /\ r.body_cost.kind \in {"absent", "total_hugeint"}
        /\ r.header_cost.kind \in {"absent", "num"}
        /\ (r.body_cost.kind = "absent" \/ r.header_cost.kind = "absent")}

\* What chat.completions.create does: raise, or return a response.
NoResponse ==
    [usage |-> [kind |-> "absent", prompt_tokens |-> 0, completion_tokens |-> 0,
                total_tokens |-> 0],
     body_cost |-> [kind |-> "absent", v |-> 0],
     header_cost |-> [kind |-> "absent", v |-> 0]]

\* content is choices[0].message.content of the response; request is filled in
\* by the operation with what it sent.
RemoteResults(responses, texts) ==
    [err : RemoteErrors, has_response : {FALSE}, response : {NoResponse},
     content : {<<>>}, request : {NoRequest}]
    \cup [err : {"none"}, has_response : {TRUE}, response : responses,
          content : texts, request : {NoRequest}]

\* The remote's part in a step that got no response object: an error, or a chunk.
RemoteEvent(err) ==
    [err |-> err, has_response |-> FALSE, response |-> NoResponse,
     content |-> <<>>, request |-> NoRequest]

\* The answer of the remote to the request it was sent.
Requested(r, request) == [r EXCEPT !.request = request]

\* A chunk of the stream with the text of its delta.content.
RemoteChunk(content) == [RemoteEvent("none") EXCEPT !.content = content]

\* -------------------------------------------------------- pure functions

\* The exceptions the try block of _extract_cost_info catches.
CaughtExceptions == {"AttributeError", "ValueError", "TypeError"}

\* usage_info after the usage block: filled from response.usage when it is there;
\* a truthy usage object without the token attributes raises AttributeError.
ExtractUsage(response, st) ==
    CASE response.usage.kind = "absent" -> st
      [] response.usage.kind = "malformed" -> [st EXCEPT !.exc = "AttributeError"]
      [] OTHER ->
           [st EXCEPT !.usage_info.has_usage = TRUE,
                      !.usage_info.prompt_tokens = response.usage.prompt_tokens,
                      !.usage_info.completion_tokens = response.usage.completion_tokens,
                      !.usage_info.total_tokens = response.usage.total_tokens]

\* The extra_body block: cost = float(cost_data.get('total', 0.0)), with what each
\* shape of extra_body raises on the way: .get on a value without it raises
\* AttributeError, float(None) TypeError, float of an unparsable string
\* ValueError, float of an integer beyond the range of a double OverflowError.
\* Skipped once an exception is in flight.
ExtractBodyCost(response, st) ==
    LET k == response.body_cost.kind
        SetCost(v) == [st EXCEPT !.cost = v, !.usage_info.has_cost = TRUE,
                                 !.usage_info.cost = v]
    IN  IF st.exc # "none" THEN st
        ELSE CASE k = "absent" -> st
               [] k \in {"nondict", "cost_nondict"} -> [st EXCEPT !.exc = "AttributeError"]
               [] k = "total_absent" -> SetCost(0)
               [] k = "total_none" -> [st EXCEPT !.exc = "TypeError"]
               [] k = "total_badstr" -> [st EXCEPT !.exc = "ValueError"]
               [] k = "total_hugeint" -> [st EXCEPT !.exc = "OverflowError"]
               [] OTHER -> SetCost(response.body_cost.v)

\* The response_headers block: cost = float(cost_header) when there is an x-cost.
ExtractHeaderCost(response, st) ==
    LET k == response.header_cost.kind
    IN  IF st.exc # "none" THEN st
        ELSE CASE k \in {"absent", "missing"} -> st
               [] k = "none" -> [st EXCEPT !.exc = "AttributeError"]
               [] k = "badstr" -> [st EXCEPT !.exc = "ValueError"]
               [] OTHER -> [st EXCEPT !.cost = response.header_cost.v,
                                      !.usage_info.has_cost = TRUE,
                                      !.usage_info.cost = response.header_cost.v]

\* _extract_cost_info: (cost, usage_info) as the three blocks left them when the
\* try block ended; exc is the exception that escapes the except clause, if any.
_extract_cost_info(response) ==
    LET s0 == [exc |-> "none", cost |-> 0, usage_info |-> NoUsageInfo]
        s3 == ExtractHeaderCost(response,
                  ExtractBodyCost(response, ExtractUsage(response, s0)))
    IN  [exc |-> IF s3.exc \in CaughtExceptions THEN "none" ELSE s3.exc,
         cost |-> s3.cost,
         usage_info |-> s3.usage_info]

\* The pricing table, in nano-dollars per token (USD per 1K tokens times 1e6);
\* pricing.get(model, default).
Pricing(model) ==
    CASE model = "x-ai/grok-4-fast" -> [input |-> 1000, output |-> 3000]
      [] model = "x-ai/grok-4" -> [input |-> 2000, output |-> 6000]
      [] model = "anthropic/claude-3.5-sonnet" -> [input |-> 3000, output |-> 15000]
      [] model = "anthropic/claude-3-haiku" -> [input |-> 250, output |-> 1250]
      [] model = "openai/gpt-4o" -> [input |-> 5000, output |-> 15000]
      [] model = "openai/gpt-4o-mini" -> [input |-> 150, output |-> 600]
      [] model = "google/gemini-pro" -> [input |-> 500, output |-> 1500]
      [] model = "meta-llama/llama-3.1-8b-instruct" -> [input |-> 200, output |-> 200]
      [] model = "meta-llama/llama-3.1-70b-instruct" -> [input |-> 900, output |-> 900]
      [] OTHER -> [input |-> 1000, output |-> 3000]

\* A slip: the two rates taken for each other.
_estimate_cost_swapped(model, prompt_tokens, completion_tokens) ==
    LET model_pricing == Pricing(model)
        input_cost == prompt_tokens * model_pricing.output
        output_cost == completion_tokens * model_pricing.input
    IN  input_cost + output_cost

\* _estimate_cost: (prompt_tokens / 1000) * input + (completion_tokens / 1000) * output.
_estimate_cost(model, prompt_tokens, completion_tokens) ==
    LET model_pricing == Pricing(model)
        input_cost == prompt_tokens * model_pricing.input
        output_cost == completion_tokens * model_pricing.output
    IN  input_cost + output_cost

\* bool(usage_info): a dict is truthy when it has a key.
Truthy(usage_info) == usage_info.has_usage \/ usage_info.has_cost

\* usage_info.get(key, 0) for the token keys, which come with response.usage.
GetTokens(usage_info, key) == IF usage_info.has_usage THEN usage_info[key] ELSE 0

\* The cost a non-streaming call records: the extracted one, or the estimate
\* when that is 0.0 and usage_info is not empty.
RecordedCost(model, cost, usage_info) ==
    IF cost = 0 /\ Truthy(usage_info)
    THEN _estimate_cost(model, GetTokens(usage_info, "prompt_tokens"),
                        GetTokens(usage_info, "completion_tokens"))
    ELSE cost

\* len(content.split()): the maximal runs of non-whitespace characters.
Whitespace == {" ", "\t", "\n"}

\* A slip: len(content), the characters of the fragment.
SplitLenChars(content) == Len(content)

SplitLen(content) ==
    Cardinality({i \in 1..Len(content) :
                    /\ content[i] \notin Whitespace
                    /\ (i = 1 \/ content[i - 1] \in Whitespace)})

\* str.strip(): the text without the whitespace at its ends.
RECURSIVE LStrip(_)
LStrip(text) ==
    IF text # <<>> /\ Head(text) \in Whitespace THEN LStrip(Tail(text)) ELSE text

RECURSIVE RStrip(_)
RStrip(text) ==
    IF text # <<>> /\ text[Len(text)] \in Whitespace
    THEN RStrip(SubSeq(text, 1, Len(text) - 1))
    ELSE text

Strip(text) == RStrip(LStrip(text))

\* str.lower(): every upper-case letter replaced by its lower-case one.
UpperCase ==
    <<"A", "B", "C", "D", "E", "F", "G", "H", "I", "J", "K", "L", "M",
      "N", "O", "P", "Q", "R", "S", "T", "U", "V", "W", "X", "Y", "Z">>

LowerCase ==
    <<"a", "b", "c", "d", "e", "f", "g", "h", "i", "j", "k", "l", "m",
      "n", "o", "p", "q", "r", "s", "t", "u", "v", "w", "x", "y", "z">>

LowerChar(c) ==
    IF \E i \in 1..Len(UpperCase) : UpperCase[i] = c
    THEN LowerCase[CHOOSE i \in 1..Len(UpperCase) : UpperCase[i] = c]
    ELSE c

Lower(text) == [i \in 1..Len(text) |-> LowerChar(text[i])]

\* The words that end an interactive session.
QuitWords == {<<"q", "u", "i", "t">>, <<"e", "x", "i", "t">>, <<"q">>}

\* A slip: the query compared as it was typed.
IsQuitCaseSensitive(query) == query \in QuitWords

\* query.lower() in ['quit', 'exit', 'q']
IsQuit(query) == Lower(query) \in QuitWords

\* a / b of Python, kept exact as a fraction; dividing by zero raises.
TrueDiv(a, b) ==
    IF b = 0 THEN [exc |-> "ZeroDivisionError", num |-> 0, den |-> 1]
    ELSE [exc |-> "none", num |-> a, den |-> b]

\* A slip: the count itself, without max(..., 1)
DenominatorUnguarded(rc) == rc

\* max(request_count, 1)
Denominator(rc) == IF rc > 1 THEN rc ELSE 1

\* ------------------------------------------------------------------ state

VARIABLES
    total_cost,      \* self.total_cost, in nano-dollars
    request_count,   \* self.request_count
    create_calls,    \* calls of self.client.chat.completions.create so far
    cost_infos,      \* the 'cost' of each cost_info attached to a response object, in order
    completed,       \* requests the caller saw complete (a return, or a drained stream)
    gen,             \* the generator the caller holds, and the stream inside it
    remote,          \* what the remote did in the latest step ("idle": it had no part)
    last,            \* what the caller's latest step did
    estimate,        \* the latest direct call of _estimate_cost and its result
    ui               \* interactive_mode of the CLI: where it stands, what it read and printed

\* The client, the remote and the client's caller.
client_vars == <<total_cost, request_count, create_calls, cost_infos, completed, gen,
                 remote, last, estimate>>

vars == <<total_cost, request_count, create_calls, cost_infos, completed, gen, remote,
          last, estimate, ui>>

\* chunk.usage of a stream chunk: a token count is <<n>>, or <<>> for None.
NoChunkUsage == [present |-> FALSE, prompt_tokens |-> <<>>, completion_tokens |-> <<>>]

ChunkUsages ==
    {[present |-> TRUE, prompt_tokens |-> <<1000>>, completion_tokens |-> <<500>>],
     [present |-> TRUE, prompt_tokens |-> <<>>, completion_tokens |-> <<7>>]}

\* The usage chunk of runs of several requests.
SampleChunkUsages ==
    {[present |-> TRUE, prompt_tokens |-> <<1000>>, completion_tokens |-> <<500>>]}

\* What the next read of the stream brings: a chunk with content, a chunk whose
\* delta.content is None, the end of the stream, or an error.
StreamEvents(fragments, usages) ==
    [kind : {"content"}, content : fragments, usage : {NoChunkUsage} \cup usages,
     err : {"none"}]
    \cup [kind : {"silent"}, content : {<<>>}, usage : {NoChunkUsage} \cup usages,
          err : {"none"}]
    \cup [kind : {"end"}, content : {<<>>}, usage : {NoChunkUsage}, err : {"none"}]
    \cup [kind : {"error"}, content : {<<>>}, usage : {NoChunkUsage}, err : RemoteErrors]

NoCostInfo ==
    [present |-> FALSE, cost |-> 0, prompt_tokens |-> 0, completion_tokens |-> 0,
     total_tokens |-> 0, model |-> "none"]

\* No generator in the caller's hands.
NoGen ==
    [status |-> "none", kind |-> "none", model |-> "none",
     query |-> <<>>,                   \* the query a research stream was asked
     messages |-> <<>>,                \* the messages the stream is to send
     prompt_tokens |-> 0, completion_tokens |-> 0,
     pending_usage |-> NoChunkUsage,   \* usage of the chunk whose content was just yielded
     chunk_usage |-> NoChunkUsage,     \* usage of "chunk", the latest chunk the loop read
     emitted |-> <<>>,                 \* the fragments the caller received
     usage_seen |-> FALSE,             \* a usage-bearing chunk was read
     stream_cost_info |-> NoCostInfo,  \* cost_info of the stream object inside
     handle_cost_info |-> NoCostInfo]  \* cost_info of the generator the caller holds

NoEstimate ==
    [called |-> FALSE, model |-> "none", prompt_tokens |-> 0, completion_tokens |-> 0,
     result |-> 0]

\* What a step of the caller came to: the operation, the model id it was given,
\* how it ended (a return, a yielded fragment, the end of the stream, an
\* exception, ...) and the exception.
Outcome(op, model, outcome, exc) ==
    [op |-> op, model |-> model, outcome |-> outcome, exc |-> exc,
     query |-> <<>>, messages |-> <<>>, value |-> <<>>]

\* The outcome of a call that was given a query (<<>>: none) and sent messages.
Called(o, query, messages) == [o EXCEPT !.query = query, !.messages = messages]

\* The outcome of a step that handed a text to the caller.
Returned(o, value) == [o EXCEPT !.value = value]

\* A slip: a handler around the call that swallows the exception.
RaisedSwallowed(op, model, exc) == Outcome(op, model, "return", "none")

\* An exception raised inside an operation leaves it as it is: no operation of
\* the client wraps its remote call (or its loop over the stream) in a handler.
Raised(op, model, exc) == Outcome(op, model, "raise", exc)

\* A slip: self.total_cost = cost
TrackCostAssigned(total, cost) == cost

\* self.total_cost += cost
TrackCost(total, cost) == total + cost

\* self.request_count += 1
CountRequest(count) == count + 1

\* The final cost summary interactive_mode prints, when it prints one.
NoSummary == [printed |-> FALSE, total_cost |-> 0, request_count |-> 0]

\* No interactive session: pc says where interactive_mode stands ("off": it was
\* not entered; "input": at the prompt; "iterating": in the for loop over the
\* stream; "total": past the loop, before the running total; "finally": in
\* the finally block; "exited").
NoUi ==
    [pc |-> "off",
     has_client |-> FALSE,       \* the local "client" is bound
     line |-> <<>>,              \* the latest line input() returned, as typed
     lines_read |-> 0,           \* lines input() returned so far
     queries |-> 0,              \* calls of client.research_query_stream so far
     fragments |-> <<>>,         \* the fragments printed for the latest query
     cost_lines |-> 0,           \* per-query cost lines printed
     totals |-> 0,               \* running totals printed
     running_total |-> NoSummary,  \* the latest running total printed
     invalid |-> 0,              \* "Please enter a valid query." printed
     errors |-> 0,               \* "Error processing query" printed
     config_error |-> FALSE,     \* "Configuration Error" printed
     goodbye |-> FALSE,          \* "Goodbye!" printed
     final_summary |-> NoSummary,  \* the final cost summary
     exc |-> "none"]             \* the exception that leaves interactive_mode

Init ==
    /\ ui = NoUi
    /\ total_cost = 0
    /\ request_count = 0
    /\ create_calls = 0
    /\ cost_infos = <<>>
    /\ completed = 0
    /\ gen = NoGen
    /\ remote = RemoteEvent("idle")
    /\ last = Outcome("__init__", "none", "return", "none")
    /\ estimate = NoEstimate

\* The caller runs only while no generator body does: there is one thread, and a
\* generator that was resumed keeps it until it yields, ends or raises.
CallerRuns == gen.status # "running"

\* ------------------------------------------------- non-streaming operations

\* chat_completion(messages, model), the remote answering r; op and query tell
\* whether the caller called it, or research_query with that query.
ChatCompletionCall(op, query, messages, model, r) ==
    /\ CallerRuns
    /\ create_calls' = create_calls + 1
    /\ remote' = Requested(r, CreateKwargs(model, messages, FALSE))
    /\ UNCHANGED <<gen, estimate>>
    /\ IF r.err # "none"
       THEN /\ last' = Called(Raised(op, model, r.err), query, messages)
            /\ UNCHANGED <<total_cost, request_count, cost_infos, completed>>
       ELSE LET x == _extract_cost_info(r.response)
                cost == RecordedCost(model, x.cost, x.usage_info)
            IN  IF x.exc # "none"
                THEN /\ last' = Called(Raised(op, model, x.exc), query, messages)
                     /\ UNCHANGED <<total_cost, request_count, cost_infos, completed>>
                ELSE /\ total_cost' = TrackCost(total_cost, cost)
                     /\ request_count' = CountRequest(request_count)
                     /\ cost_infos' = Append(cost_infos, cost)
                     /\ completed' = completed + 1
                     /\ last' = Returned(Called(Outcome(op, model, "return", "none"),
                                                query, messages),
                                         r.content)

ChatCompletion(messages, model, r) ==
    ChatCompletionCall("chat_completion", <<>>, messages, model, r)

\* research_query(query, model): return self.chat_completion(messages, model)
ResearchQuery(query, model, r) ==
    ChatCompletionCall("research_query", query, ResearchMessages(query), model, r)

\* analyze_image(image_url, prompt, model), the remote answering r.
AnalyzeImage(image_url, prompt, model, r) ==
    LET messages == ImageMessages(image_url, prompt)
    IN
    /\ CallerRuns
    /\ create_calls' = create_calls + 1
    /\ remote' = Requested(r, CreateKwargs(model, messages, FALSE))
    /\ UNCHANGED <<gen, estimate>>
    /\ IF r.err # "none"
       THEN /\ last' = Called(Raised("analyze_image", model, r.err), <<>>, messages)
            /\ UNCHANGED <<total_cost, request_count, cost_infos, completed>>
       ELSE LET x == _extract_cost_info(r.response)
                cost == RecordedCost(model, x.cost, x.usage_info)
            IN  IF x.exc # "none"
                THEN /\ last' = Called(Raised("analyze_image", model, x.exc), <<>>, messages)
                     /\ UNCHANGED <<total_cost, request_count, cost_infos, completed>>
                ELSE /\ total_cost' = TrackCost(total_cost, cost)
                     /\ request_count' = CountRequest(request_count)
                     /\ cost_infos' = Append(cost_infos, cost)
                     /\ completed' = completed + 1
                     /\ last' = Returned(Called(Outcome("analyze_image", model, "return", "none"),
                                                <<>>, messages),
                                         r.content)

\* get_cost_summary(): the dict, or the exception its division raises.
get_cost_summary ==
    LET q == TrueDiv(total_cost, Denominator(request_count))
    IN  [exc |-> q.exc,
         total_cost |-> total_cost,
         request_count |-> request_count,
         average_cost_per_request |-> q]

GetCostSummary ==
    /\ CallerRuns
    /\ last' = IF get_cost_summary.exc = "none"
               THEN Outcome("get_cost_summary", "none", "return", "none")
               ELSE Raised("get_cost_summary", "none", get_cost_summary.exc)
    /\ remote' = RemoteEvent("idle")
    /\ UNCHANGED <<total_cost, request_count, create_calls, cost_infos, completed,
                   gen, estimate>>

\* ----------------------------------------------------- streaming operations

\* Calling a generator function runs none of its body: the caller gets a
\* generator, and the request is made when the first fragment is asked for.
NewGenerator(op, query, messages, model) ==
    /\ gen.status \in {"none", "done", "failed", "closed"}
    /\ gen' = [NoGen EXCEPT !.status = "created", !.kind = op, !.model = model,
                            !.query = query, !.messages = messages]
    /\ last' = Called(Outcome(op, model, "handle", "none"), query, messages)
    /\ remote' = RemoteEvent("idle")
    /\ UNCHANGED <<total_cost, request_count, create_calls, cost_infos, completed, estimate>>

ChatCompletionStream(messages, model) ==
    NewGenerator("chat_completion_stream", <<>>, messages, model)

AnalyzeImageStream(image_url, prompt, model) ==
    NewGenerator("analyze_image_stream", <<>>, ImageMessages(image_url, prompt), model)

\* research_query_stream(query, model): its generator builds the messages and
\* iterates self.chat_completion_stream(messages, model).
ResearchQueryStream(query, model) ==
    NewGenerator("research_query_stream", query, ResearchMessages(query), model)

\* x or 0
OrZero(x) == IF x = <<>> THEN 0 ELSE x[1]

\* A slip: the chunk's completion count added to the approximation (+=).
ApplyUsageAdded(g, usage) ==
    IF usage.present
    THEN [g EXCEPT !.prompt_tokens = OrZero(usage.prompt_tokens),
                   !.completion_tokens = @ + OrZero(usage.completion_tokens),
                   !.usage_seen = TRUE]
    ELSE g

\* if hasattr(chunk, 'usage') and chunk.usage: take the chunk's token counts.
ApplyUsage(g, usage) ==
    IF usage.present
    THEN [g EXCEPT !.prompt_tokens = OrZero(usage.prompt_tokens),
                   !.completion_tokens = OrZero(usage.completion_tokens),
                   !.usage_seen = TRUE]
    ELSE g

\* The bookkeeping after the loop: the stream's cost is the estimate for the
\* token counts the loop ended with.
StreamCostInfo(g) ==
    [present |-> TRUE,
     cost |-> _estimate_cost(g.model, g.prompt_tokens, g.completion_tokens),
     prompt_tokens |-> g.prompt_tokens,
     completion_tokens |-> g.completion_tokens,
     total_tokens |-> g.prompt_tokens + g.completion_tokens,
     model |-> g.model]

\* The object the cost record is set on: "stream", the object create() returned,
\* which lives inside the generator; the generator itself is the caller's handle.
AttachCostInfo(g, info) == [g EXCEPT !.stream_cost_info = info]

\* next() on the generator: the body starts with the call of create(), which
\* raises cerr or returns the stream, or goes on after the yield with the usage
\* check of the chunk whose content it had yielded. The loop then reads on.
StreamResume(cerr) ==
    /\ gen.status \in {"created", "suspended"}
    /\ UNCHANGED <<total_cost, request_count, cost_infos, completed, estimate>>
    /\ IF gen.status = "created"
       THEN /\ create_calls' = create_calls + 1
            /\ remote' = Requested(RemoteEvent(cerr),
                                   CreateKwargs(gen.model, gen.messages, TRUE))
            /\ IF cerr # "none"
               THEN /\ gen' = [gen EXCEPT !.status = "failed"]
                    /\ last' = Raised(gen.kind, gen.model, cerr)
               ELSE /\ gen' = [gen EXCEPT !.status = "running"]
                    /\ last' = Outcome(gen.kind, gen.model, "running", "none")
       ELSE /\ cerr = "none"
            /\ gen' = [ApplyUsage(gen, gen.pending_usage) EXCEPT
                          !.pending_usage = NoChunkUsage, !.status = "running"]
            /\ last' = Outcome(gen.kind, gen.model, "running", "none")
            /\ remote' = RemoteEvent("idle")
            /\ UNCHANGED create_calls

\* One turn of "for chunk in stream" in the running body: reading the stream
\* brings a chunk, its end, or an error. A chunk with content is counted and
\* yielded; at the end the cost is estimated, tracked and attached.
StreamRead(ev) ==
    /\ gen.status = "running"
    /\ UNCHANGED <<create_calls, estimate>>
    /\ CASE ev.kind = "content" ->
              /\ Len(gen.emitted) < MaxFragments
              /\ gen' = [gen EXCEPT
                     !.completion_tokens = @ + SplitLen(ev.content),
                     !.emitted = Append(@, ev.content),
                     !.pending_usage = ev.usage,
                     !.chunk_usage = ev.usage,
                     !.usage_seen = @ \/ ev.usage.present,
                     !.status = "suspended"]
              /\ remote' = RemoteChunk(ev.content)
              /\ last' = Returned(Outcome(gen.kind, gen.model, "yield", "none"), ev.content)
              /\ UNCHANGED <<total_cost, request_count, cost_infos, completed>>
         [] ev.kind = "silent" ->
              /\ gen' = [ApplyUsage(gen, ev.usage) EXCEPT !.chunk_usage = ev.usage]
              /\ remote' = RemoteEvent("none")
              /\ UNCHANGED <<total_cost, request_count, cost_infos, completed, last>>
         [] ev.kind = "end" ->
              LET info == StreamCostInfo(gen)
              IN  /\ total_cost' = TrackCost(total_cost, info.cost)
                  /\ request_count' = CountRequest(request_count)
                  /\ gen' = [AttachCostInfo(gen, info) EXCEPT !.status = "done"]
                  /\ cost_infos' = Append(cost_infos, info.cost)
                  /\ completed' = completed + 1
                  /\ remote' = RemoteEvent("none")
                  /\ last' = Outcome(gen.kind, gen.model, "stop", "none")
         [] OTHER ->
              /\ gen' = [gen EXCEPT !.status = "failed"]
              /\ remote' = RemoteEvent(ev.err)
              /\ last' = Raised(gen.kind, gen.model, ev.err)
              /\ UNCHANGED <<total_cost, request_count, cost_infos, completed>>

\* chat_completion_stream: next() on its generator, and one turn of its loop.
ChatCompletionStreamNext(cerr) ==
    /\ gen.kind = "chat_completion_stream"
    /\ StreamResume(cerr)

ChatCompletionStreamChunk(ev) ==
    /\ gen.kind = "chat_completion_stream"
    /\ StreamRead(ev)

\* analyze_image_stream, whose body repeats that of chat_completion_stream.
AnalyzeImageStreamNext(cerr) ==
    /\ gen.kind = "analyze_image_stream"
    /\ StreamResume(cerr)

AnalyzeImageStreamChunk(ev) ==
    /\ gen.kind = "analyze_image_stream"
    /\ StreamRead(ev)

\* research_query_stream, which re-yields every fragment of chat_completion_stream
\* and ends, or fails, with it.
ResearchQueryStreamNext(cerr) ==
    /\ gen.kind = "research_query_stream"
    /\ StreamResume(cerr)

ResearchQueryStreamChunk(ev) ==
    /\ gen.kind = "research_query_stream"
    /\ StreamRead(ev)

\* A slip: the bookkeeping in a finally block, which a closed generator runs.
AbandonAccounted ==
    /\ gen.status \in {"created", "suspended"}
    /\ gen' = [AttachCostInfo(gen, StreamCostInfo(gen)) EXCEPT !.status = "closed"]
    /\ total_cost' = TrackCost(total_cost, StreamCostInfo(gen).cost)
    /\ request_count' = CountRequest(request_count)
    /\ cost_infos' = Append(cost_infos, StreamCostInfo(gen).cost)
    /\ last' = Outcome(gen.kind, gen.model, "abandon", "none")
    /\ remote' = RemoteEvent("idle")
    /\ UNCHANGED <<create_calls, completed, estimate>>

\* The caller stops iterating and drops the generator: it is closed where it
\* stands, and the rest of its body never runs.
Abandon ==
    /\ gen.status \in {"created", "suspended"}
    /\ gen' = [gen EXCEPT !.status = "closed"]
    /\ last' = Outcome(gen.kind, gen.model, "abandon", "none")
    /\ remote' = RemoteEvent("idle")
    /\ UNCHANGED <<total_cost, request_count, create_calls, cost_infos, completed, estimate>>

\* A direct call of _estimate_cost(model, prompt_tokens, completion_tokens).
EstimateCost(model, prompt_tokens, completion_tokens) ==
    /\ estimate' = [called |-> TRUE, model |-> model, prompt_tokens |-> prompt_tokens,
                    completion_tokens |-> completion_tokens,
                    result |-> _estimate_cost(model, prompt_tokens, completion_tokens)]
    /\ UNCHANGED <<total_cost, request_count, create_calls, cost_infos, completed, gen,
                   remote, last>>

\* ------------------------------------------------------- interactive mode

\* interactive_mode() up to the loop: client = OpenRouterClient(), which raises
\* ValueError without an API key; the handler of ValueError prints the
\* configuration error and the finally block follows with no client bound.
InteractiveStart(api_key) ==
    /\ ui.pc = "off"
    /\ ui' = IF api_key
             THEN [ui EXCEPT !.pc = "input", !.has_client = TRUE]
             ELSE [ui EXCEPT !.pc = "finally", !.config_error = TRUE]
    /\ UNCHANGED client_vars

\* One turn of the loop up to the for loop: input() returns a line, which is
\* stripped; a quit word ends the loop, an empty query is refused, and for
\* any other the generator of research_query_stream(query) is made.
InteractiveInput(line) ==
    LET query == Strip(line)
        read == [ui EXCEPT !.line = line, !.lines_read = @ + 1]
    IN  /\ ui.pc = "input"
        /\ IF IsQuit(query)
           THEN /\ ui' = [read EXCEPT !.goodbye = TRUE, !.pc = "finally"]
                /\ UNCHANGED client_vars
           ELSE IF query = <<>>
           THEN /\ ui' = [read EXCEPT !.invalid = @ + 1]
                /\ UNCHANGED client_vars
           ELSE /\ ResearchQueryStream(query, DefaultModel)
                /\ ui' = [read EXCEPT !.queries = @ + 1, !.fragments = <<>>,
                                      !.pc = "iterating"]

\* input() raises EOFError at the end of the input: no handler of
\* interactive_mode catches it, and the finally block runs on its way out.
InteractiveEndOfInput ==
    /\ ui.pc = "input"
    /\ ui' = [ui EXCEPT !.pc = "finally", !.exc = "EOFError"]
    /\ UNCHANGED client_vars

\* What the loop does with the generator's answer to next(): it prints a
\* fragment; at the end of the stream it prints the cost line if the handle has
\* a cost_info and goes on to the running total; an exception is caught by
\* "except Exception", its message printed, and the loop reads on.
AfterNext(u, g) ==
    CASE g.status = "suspended" ->
             [u EXCEPT !.fragments = Append(@, g.emitted[Len(g.emitted)])]
      [] g.status = "done" ->
             [u EXCEPT !.cost_lines = @ + (IF g.handle_cost_info.present THEN 1 ELSE 0),
                       !.pc = "total"]
      [] g.status = "failed" ->
             [u EXCEPT !.errors = @ + 1, !.pc = "input"]
      [] OTHER -> u

\* for chunk in stream: next() on the generator, which starts or resumes it.
InteractiveNext(cerr) ==
    /\ ui.pc = "iterating"
    /\ ResearchQueryStreamNext(cerr)
    /\ ui' = AfterNext(ui, gen')

\* The generator, running for the loop, reads a chunk.
InteractiveChunk(ev) ==
    /\ ui.pc = "iterating"
    /\ ResearchQueryStreamChunk(ev)
    /\ ui' = AfterNext(ui, gen')

\* cost_summary = client.get_cost_summary() and the running total printed from
\* it, after a drained stream; the loop reads on.
InteractiveRunningTotal ==
    /\ ui.pc = "total"
    /\ GetCostSummary
    /\ ui' = IF get_cost_summary.exc = "none"
             THEN [ui EXCEPT !.totals = @ + 1,
                             !.running_total =
                                 [printed |-> TRUE,
                                  total_cost |-> get_cost_summary.total_cost,
                                  request_count |-> get_cost_summary.request_count],
                             !.pc = "input"]
             ELSE [ui EXCEPT !.errors = @ + 1, !.pc = "input"]

\* The finally block: the final summary is printed when get_cost_summary()
\* reports a request; with no client bound the call raises NameError, which
\* the bare except swallows. interactive_mode then returns, or raises on.
InteractiveFinally ==
    /\ ui.pc = "finally"
    /\ IF ui.has_client
       THEN /\ GetCostSummary
            /\ ui' = IF get_cost_summary.exc = "none" /\ get_cost_summary.request_count > 0
                     THEN [ui EXCEPT !.final_summary =
                                         [printed |-> TRUE,
                                          total_cost |-> get_cost_summary.total_cost,
                                          request_count |-> get_cost_summary.request_count],
                                     !.pc = "exited"]
                     ELSE [ui EXCEPT !.pc = "exited"]
       ELSE /\ ui' = [ui EXCEPT !.pc = "exited"]
            /\ UNCHANGED client_vars

\* ---------------------------------------------------------- specification

\* Room for one more remote call within n, counting the call a generator that
\* has not started yet is going to make.
Budget(n) == create_calls + (IF gen.status = "created" THEN 1 ELSE 0) < n

\* Any mix of the client's operations, the remote answering as it pleases.
Next ==
    \/ /\ Budget(MaxRequests)
       /\ UNCHANGED ui
       /\ \E messages \in SampleMessageLists, model \in SampleModelIds,
             r \in RemoteResults(SampleResponses, SampleTexts) :
             ChatCompletion(messages, model, r)
    \/ /\ Budget(MaxRequests)
       /\ UNCHANGED ui
       /\ \E image_url \in ImageUrls, prompt \in Prompts, model \in SampleModelIds,
             r \in RemoteResults(SampleResponses, SampleTexts) :
             AnalyzeImage(image_url, prompt, model, r)
    \/ /\ Budget(MaxRequests)
       /\ UNCHANGED ui
       /\ \E query \in SampleQueries, model \in SampleModelIds,
             r \in RemoteResults(SampleResponses, SampleTexts) :
             ResearchQuery(query, model, r)
    \/ /\ Budget(MaxRequests)
       /\ UNCHANGED ui
       /\ \E messages \in SampleMessageLists, model \in SampleModelIds :
             ChatCompletionStream(messages, model)
    \/ /\ Budget(MaxRequests)
       /\ UNCHANGED ui
       /\ \E image_url \in ImageUrls, prompt \in Prompts, model \in SampleModelIds :
             AnalyzeImageStream(image_url, prompt, model)
    \/ /\ Budget(MaxRequests)
       /\ UNCHANGED ui
       /\ \E query \in SampleQueries, model \in SampleModelIds :
             ResearchQueryStream(query, model)
    \/ \E cerr \in RemoteErrors \cup {"none"} : ChatCompletionStreamNext(cerr) /\ UNCHANGED ui
    \/ \E ev \in StreamEvents(SampleFragments, SampleChunkUsages) : ChatCompletionStreamChunk(ev) /\ UNCHANGED ui
    \/ \E cerr \in RemoteErrors \cup {"none"} : AnalyzeImageStreamNext(cerr) /\ UNCHANGED ui
    \/ \E ev \in StreamEvents(SampleFragments, SampleChunkUsages) : AnalyzeImageStreamChunk(ev) /\ UNCHANGED ui
    \/ \E cerr \in RemoteErrors \cup {"none"} : ResearchQueryStreamNext(cerr) /\ UNCHANGED ui
    \/ \E ev \in StreamEvents(SampleFragments, SampleChunkUsages) : ResearchQueryStreamChunk(ev) /\ UNCHANGED ui
    \/ Abandon /\ UNCHANGED ui
    \/ GetCostSummary /\ UNCHANGED ui

Spec == Init /\ [][Next]_vars

\* The non-streaming operations on every shape of response.
NextCall ==
    \/ /\ Budget(MaxCalls)
       /\ UNCHANGED ui
       /\ \E messages \in SampleMessageLists, model \in ModelIds,
             r \in RemoteResults(Responses, SampleTexts) :
             ChatCompletion(messages, model, r)
    \/ /\ Budget(MaxCalls)
       /\ UNCHANGED ui
       /\ \E image_url \in ImageUrls, prompt \in Prompts, model \in ModelIds,
             r \in RemoteResults(Responses, SampleTexts) :
             AnalyzeImage(image_url, prompt, model, r)
    \/ /\ Budget(MaxCalls)
       /\ UNCHANGED ui
       /\ \E query \in SampleQueries, model \in ModelIds,
             r \in RemoteResults(Responses, SampleTexts) :
             ResearchQuery(query, model, r)

SpecCall == Init /\ [][NextCall]_vars

\* The streaming operations on every fragment and usage chunk.
NextStream ==
    \/ /\ Budget(MaxStreams)
       /\ UNCHANGED ui
       /\ \E messages \in SampleMessageLists, model \in ModelIds :
             ChatCompletionStream(messages, model)
    \/ /\ Budget(MaxStreams)
       /\ UNCHANGED ui
       /\ \E image_url \in ImageUrls, prompt \in Prompts, model \in ModelIds :
             AnalyzeImageStream(image_url, prompt, model)
    \/ /\ Budget(MaxStreams)
       /\ UNCHANGED ui
       /\ \E query \in SampleQueries, model \in ModelIds :
             ResearchQueryStream(query, model)
    \/ \E cerr \in RemoteErrors \cup {"none"} : ChatCompletionStreamNext(cerr) /\ UNCHANGED ui
    \/ \E ev \in StreamEvents(Fragments, ChunkUsages) : ChatCompletionStreamChunk(ev) /\ UNCHANGED ui
    \/ \E cerr \in RemoteErrors \cup {"none"} : AnalyzeImageStreamNext(cerr) /\ UNCHANGED ui
    \/ \E ev \in StreamEvents(Fragments, ChunkUsages) : AnalyzeImageStreamChunk(ev) /\ UNCHANGED ui
    \/ \E cerr \in RemoteErrors \cup {"none"} : ResearchQueryStreamNext(cerr) /\ UNCHANGED ui
    \/ \E ev \in StreamEvents(Fragments, ChunkUsages) : ResearchQueryStreamChunk(ev) /\ UNCHANGED ui
    \/ Abandon /\ UNCHANGED ui

SpecStream == Init /\ [][NextStream]_vars

\* The research wrappers and the operations they delegate to, on every query
\* and message list.
NextResearch ==
    \/ /\ Budget(MaxQueries)
       /\ UNCHANGED ui
       /\ \E query \in Queries, model \in SampleModelIds,
             r \in RemoteResults(SampleResponses, Texts) :
             ResearchQuery(query, model, r)
    \/ /\ Budget(MaxQueries)
       /\ UNCHANGED ui
       /\ \E messages \in MessageLists, model \in SampleModelIds,
             r \in RemoteResults(SampleResponses, Texts) :
             ChatCompletion(messages, model, r)
    \/ /\ Budget(MaxQueries)
       /\ UNCHANGED ui
       /\ \E query \in Queries, model \in SampleModelIds :
             ResearchQueryStream(query, model)
    \/ /\ Budget(MaxQueries)
       /\ UNCHANGED ui
       /\ \E messages \in MessageLists, model \in SampleModelIds :
             ChatCompletionStream(messages, model)
    \/ \E cerr \in RemoteErrors \cup {"none"} : ResearchQueryStreamNext(cerr) /\ UNCHANGED ui
    \/ \E ev \in StreamEvents(Fragments, {}) : ResearchQueryStreamChunk(ev) /\ UNCHANGED ui
    \/ \E cerr \in RemoteErrors \cup {"none"} : ChatCompletionStreamNext(cerr) /\ UNCHANGED ui
    \/ \E ev \in StreamEvents(Fragments, {}) : ChatCompletionStreamChunk(ev) /\ UNCHANGED ui
    \/ Abandon /\ UNCHANGED ui

SpecResearch == Init /\ [][NextResearch]_vars

\* An interactive session: any lines typed, the remote answering as it pleases.
NextInteractive ==
    \/ \E api_key \in BOOLEAN : InteractiveStart(api_key)
    \/ /\ ui.lines_read < MaxLines
       /\ \E line \in InputLines : InteractiveInput(line)
    \/ InteractiveEndOfInput
    \/ \E cerr \in RemoteErrors \cup {"none"} : InteractiveNext(cerr)
    \/ \E ev \in StreamEvents(SampleFragments, SampleChunkUsages) : InteractiveChunk(ev)
    \/ InteractiveRunningTotal
    \/ InteractiveFinally

SpecInteractive == Init /\ [][NextInteractive]_vars

\* The estimator on every model id and token count.
NextEstimate ==
    \E model \in AllModelIds, prompt_tokens \in TokenCounts, completion_tokens \in TokenCounts :
        EstimateCost(model, prompt_tokens, completion_tokens) /\ UNCHANGED ui

SpecEstimate == Init /\ [][NextEstimate]_vars

\* ------------------------------------------------------------------ claims

RECURSIVE SumSeq(_)
SumSeq(q) == IF q = <<>> THEN 0 ELSE Head(q) + SumSeq(Tail(q))

NonStreamingOps == {"chat_completion", "analyze_image", "research_query"}

StreamingOps == {"chat_completion_stream", "analyze_image_stream", "research_query_stream"}

\* C1: after any mix of operations, request_count is the number of requests that
\* completed (calls that returned, streams that were drained), each of them
\* attached one cost record, and total_cost is the sum of the costs of those records.
C1_CountAndTotalMatchCompleted ==
    /\ request_count = completed
    /\ Len(cost_infos) = completed
    /\ total_cost = SumSeq(cost_infos)

\* A drained stream and then a returned call, both with a cost.
C1_Witness ==
    /\ completed = 2
    /\ gen.status = "done"
    /\ last.op \in NonStreamingOps
    /\ last.outcome = "return"
    /\ cost_infos[1] > 0
    /\ cost_infos[2] > 0

\* C8: in every state get_cost_summary returns, without raising, total_cost,
\* request_count and their quotient over max(request_count, 1): with no request
\* made the average is total_cost, which is 0, and with requests made the
\* average times request_count is total_cost.
C8_SummaryConsistent ==
    LET summary == get_cost_summary
        avg == summary.average_cost_per_request
    IN  /\ summary.exc = "none"
        /\ summary.total_cost = total_cost
        /\ summary.request_count = request_count
        /\ avg.den = (IF request_count >= 1 THEN request_count ELSE 1)
        /\ avg.num = total_cost
        /\ request_count = 0 => (avg.num = total_cost * avg.den /\ total_cost = 0)
        /\ request_count > 0 => summary.total_cost * avg.den = avg.num * summary.request_count
        /\ last.op = "get_cost_summary" => last.outcome = "return"

\* The summary was asked for after two requests with a cost.
C8_Witness ==
    /\ last.op = "get_cost_summary"
    /\ last.outcome = "return"
    /\ request_count = 2
    /\ total_cost > 0

\* C9: over any operations and any remote responses total_cost never decreases,
\* request_count never decreases, and request_count grows by exactly 1 with
\* each completed request.
C9_AccumulatorsNeverDecrease ==
    [][/\ total_cost' >= total_cost
       /\ request_count' >= request_count
       /\ (completed' # completed => request_count' = request_count + 1)]_vars

\* C10: a step in which the remote fails (create() raises, or a later read of the
\* stream does) ends the operation with that very error, makes at most the one
\* request it was making (none when the stream was already open), leaves a
\* generator finished, and changes neither accumulator nor the cost records.
C10_RemoteFailureSurfaces ==
    [][remote'.err \in RemoteErrors =>
          /\ last'.outcome = "raise"
          /\ last'.exc = remote'.err
          /\ total_cost' = total_cost
          /\ request_count' = request_count
          /\ cost_infos' = cost_infos
          /\ completed' = completed
          /\ create_calls' <= create_calls + 1
          /\ gen.status = "running" => (create_calls' = create_calls /\ gen'.status = "failed")
          /\ gen.status = "created" /\ gen' # gen => gen'.status = "failed"]_vars

\* A stream failed on a read after a fragment, on a client that had counted a request.
C10_Witness ==
    /\ remote.err \in RemoteErrors
    /\ last.outcome = "raise"
    /\ last.op \in StreamingOps
    /\ gen.status = "failed"
    /\ Len(gen.emitted) >= 1
    /\ request_count = 1
    /\ total_cost > 0

\* C3: every step of a generator that does not end the drain of its stream (its
\* start, a fragment, a failure, the caller abandoning it) leaves total_cost,
\* request_count and the cost records as they were and leaves no cost record on
\* the stream or on the handle: the bookkeeping runs only once the stream is drained.
C3_UndrainedStreamUncounted ==
    [][(gen' # gen /\ gen'.status # "done") =>
          /\ total_cost' = total_cost
          /\ request_count' = request_count
          /\ cost_infos' = cost_infos
          /\ ~gen'.stream_cost_info.present
          /\ ~gen'.handle_cost_info.present]_vars

\* The caller dropped a stream after a fragment, on a client that had counted a request.
C3_Witness ==
    /\ gen.status = "closed"
    /\ last.outcome = "abandon"
    /\ Len(gen.emitted) >= 1
    /\ request_count = 1
    /\ total_cost > 0
    /\ ~gen.stream_cost_info.present

\* C2: once a stream is drained, the cost record is on the handle the caller
\* holds and iterated (the generator), where the CLI driver looks for it.
C2_CostRecordOnHandle ==
    gen.status = "done" =>
        /\ gen.handle_cost_info.present
        /\ gen.handle_cost_info = gen.stream_cost_info

\* The whitespace-separated segments of a fragment, counted by a scan.
RECURSIVE Segments(_, _)
Segments(content, in_segment) ==
    IF content = <<>> THEN 0
    ELSE IF Head(content) \in {" ", "\t", "\n"} THEN Segments(Tail(content), FALSE)
    ELSE (IF in_segment THEN 0 ELSE 1) + Segments(Tail(content), TRUE)

RECURSIVE SumSegments(_)
SumSegments(fragments) ==
    IF fragments = <<>> THEN 0
    ELSE Segments(Head(fragments), FALSE) + SumSegments(Tail(fragments))

\* C6: a drained stream that brought no usage-bearing chunk has a cost record
\* with prompt_tokens 0, completion_tokens the sum over the fragments yielded
\* of their whitespace-separated segments, and the estimate for those counts as
\* its cost, which is the cost tracked for the request.
C6_FallbackTokenApproximation ==
    (gen.status = "done" /\ ~gen.usage_seen) =>
        LET info == gen.stream_cost_info
            n == SumSegments(gen.emitted)
        IN  /\ info.present
            /\ info.prompt_tokens = 0
            /\ info.completion_tokens = n
            /\ info.total_tokens = n
            /\ info.model = gen.model
            /\ info.cost = n * Pricing(gen.model).output
            /\ cost_infos # <<>>
            /\ cost_infos[Len(cost_infos)] = info.cost

\* The fragments "a" and " b", drained with no usage chunk: 2 tokens.
C6_Witness ==
    /\ gen.status = "done"
    /\ ~gen.usage_seen
    /\ gen.emitted = << <<"a">>, <<" ", "b">> >>
    /\ gen.stream_cost_info.present
    /\ gen.stream_cost_info.completion_tokens = 2

TableModelIds == AllModelIds \ {"unknown/model"}

\* C7: _estimate_cost(m, p, c) is p/1000 * in(m) + c/1000 * out(m), with the
\* table's entry of m, or (0.001, 0.003) for an m outside the table, for which
\* it returns a number all the same; for p = c = 1000 that is in(m) + out(m),
\* 0.004 on the default tier.
C7_EstimateFormula ==
    estimate.called =>
        LET m == estimate.model
            p == estimate.prompt_tokens
            c == estimate.completion_tokens
            rate == IF m \in TableModelIds THEN Pricing(m)
                    ELSE [input |-> 1000, output |-> 3000]
        IN  /\ estimate.result \in Int
            /\ estimate.result = p * rate.input + c * rate.output
            /\ (p = 1000 /\ c = 1000) => estimate.result = 1000 * (rate.input + rate.output)
            /\ (p = 1000 /\ c = 1000 /\ m \notin TableModelIds) => estimate.result = 4000000
            /\ (p = 1000 /\ c = 1000 /\ m = "openai/gpt-4o-mini") => estimate.result = 750000

\* The estimate of 1000 + 1000 tokens of a model outside the table: 0.004 USD.
C7_Witness ==
    /\ estimate.called
    /\ estimate.model = "unknown/model"
    /\ estimate.prompt_tokens = 1000
    /\ estimate.completion_tokens = 1000
    /\ estimate.result = 4000000

\* A response with no usable cost: none, or a malformed one, in extra_body and
\* in the x-cost header alike.
CostMissingOrMalformed(r) == r.body_cost.kind # "num" /\ r.header_cost.kind # "num"

\* The token counts of the response's usage, 0 without one.
ResponseTokens(r, key) == IF r.usage.kind = "ok" THEN r.usage[key] ELSE 0

ResponseEstimate(model, r) ==
    ResponseTokens(r, "prompt_tokens") * Pricing(model).input
    + ResponseTokens(r, "completion_tokens") * Pricing(model).output

\* C4: a non-streaming call whose response has a missing or malformed cost
\* returns (nothing is raised), and the cost it records is the estimate.
C4_MalformedCostIsEstimated ==
    (remote.has_response /\ CostMissingOrMalformed(remote.response)) =>
        /\ last.outcome = "return"
        /\ last.exc = "none"
        /\ cost_infos # <<>>
        /\ cost_infos[Len(cost_infos)] = ResponseEstimate(last.model, remote.response)

\* The exact costs a response carries.
ExactCosts(r) ==
    {r.body_cost.v : k \in {r.body_cost.kind} \cap {"num"}}
    \cup {r.header_cost.v : k \in {r.header_cost.kind} \cap {"num"}}

\* C5: a non-streaming call that returns has recorded the exact cost of the
\* response when it carries one, and the estimate for its usage otherwise.
C5_ExactCostElseEstimate ==
    (remote.has_response /\ last.outcome = "return") =>
        /\ cost_infos # <<>>
        /\ IF ExactCosts(remote.response) # {}
           THEN cost_infos[Len(cost_infos)] \in ExactCosts(remote.response)
           ELSE cost_infos[Len(cost_infos)] = ResponseEstimate(last.model, remote.response)

\* The count a usage chunk carries in a field, 0 when the field is None.
CarriedCount(field) == IF Len(field) = 0 THEN 0 ELSE Head(field)

\* C13: a drained stream whose final chunk bore usage has a cost record whose
\* prompt_tokens and completion_tokens are the counts of that chunk (whatever
\* the fragments had added up to), whose total_tokens is their sum and whose
\* cost is the estimate for those counts, which is the cost tracked.
C13_FinalUsageChunkOverrides ==
    (gen.status = "done" /\ gen.chunk_usage.present) =>
        LET info == gen.stream_cost_info
            p == CarriedCount(gen.chunk_usage.prompt_tokens)
            c == CarriedCount(gen.chunk_usage.completion_tokens)
        IN  /\ info.present
            /\ info.prompt_tokens = p
            /\ info.completion_tokens = c
            /\ info.total_tokens = p + c
            /\ info.cost = p * Pricing(gen.model).input + c * Pricing(gen.model).output
            /\ cost_infos # <<>>
            /\ cost_infos[Len(cost_infos)] = info.cost

\* Fragments of 3 segments drained, the last chunk bearing usage (1000, 500):
\* the record has the chunk's counts, not the 3 of the approximation.
C13_Witness ==
    /\ gen.status = "done"
    /\ gen.chunk_usage.present
    /\ SumSegments(gen.emitted) = 3
    /\ gen.stream_cost_info.prompt_tokens = 1000
    /\ gen.stream_cost_info.completion_tokens = 500
    /\ gen.stream_cost_info.total_tokens = 1500

\* The two-message list of the research wrappers for a query: the system message
\* with the fixed instruction, then the user message with the query.
TwoMessageList(query) ==
    <<[role |-> "system",
       content |-> <<"You are an AI research assistant. Provide detailed, accurate, and well-structured responses to research queries.">>,
       image_url |-> <<>>],
      [role |-> "user", content |-> query, image_url |-> <<>>]>>

\* What one call of chat_completion does to the client with the answer the
\* remote gave in the step: it counts one request and tracks the cost it records
\* for the response, or raises and changes nothing.
OneChatCompletion ==
    LET x == _extract_cost_info(remote'.response)
    IN  /\ create_calls' = create_calls + 1
        /\ gen' = gen
        /\ IF remote'.err = "none" /\ x.exc = "none"
           THEN /\ last'.outcome = "return"
                /\ last'.value = remote'.content
                /\ request_count' = request_count + 1
                /\ completed' = completed + 1
                /\ cost_infos' = Append(cost_infos,
                                        RecordedCost(last'.model, x.cost, x.usage_info))
                /\ total_cost' = total_cost + RecordedCost(last'.model, x.cost, x.usage_info)
           ELSE /\ last'.outcome = "raise"
                /\ last'.exc = (IF remote'.err # "none" THEN remote'.err ELSE x.exc)
                /\ UNCHANGED <<total_cost, request_count, cost_infos, completed>>

\* What one step of a chat_completion_stream generator does: the call that makes
\* it and its abandoning touch nothing, its start makes the one request, a
\* fragment goes to the caller as the remote sent it, after the others, and
\* the end of the stream counts one request with the estimate as its cost.
OneChatCompletionStreamStep ==
    CASE last'.outcome = "handle" ->
             /\ gen'.status = "created"
             /\ UNCHANGED <<total_cost, request_count, cost_infos, completed, create_calls>>
      [] gen.status = "created" /\ last'.outcome # "abandon" ->
             /\ create_calls' = create_calls + 1
             /\ remote'.request.sent
             /\ remote'.request.stream
             /\ remote'.request.model = gen.model
             /\ remote'.request.messages = gen.messages
             /\ gen'.emitted = <<>>
             /\ UNCHANGED <<total_cost, request_count, cost_infos, completed>>
      [] last'.outcome = "yield" /\ gen.status = "running" ->
             /\ last'.value = remote'.content
             /\ gen'.emitted = Append(gen.emitted, remote'.content)
             /\ UNCHANGED <<total_cost, request_count, cost_infos, completed, create_calls>>
      [] last'.outcome = "stop" ->
             /\ gen'.emitted = gen.emitted
             /\ request_count' = request_count + 1
             /\ completed' = completed + 1
             /\ total_cost' = total_cost
                    + _estimate_cost(gen.model, gen.prompt_tokens, gen.completion_tokens)
             /\ create_calls' = create_calls
      [] OTHER ->
             /\ gen'.emitted = gen.emitted
             /\ UNCHANGED <<total_cost, request_count, cost_infos, completed, create_calls>>

\* C12: a step of research_query(query, model) sends create() the model and the
\* two-message list for the query and is otherwise one call of chat_completion:
\* it returns the text of the response and counts one request, or raises; a
\* step of a research_query_stream(query, model) generator is a step of a
\* chat_completion_stream generator that holds the two-message list: one
\* streaming request, the fragments in the order the remote sent them, one
\* request counted when the stream is drained.
C12_ResearchWrappersDelegate ==
    [][/\ last'.op = "research_query" =>
             /\ remote'.request = [sent |-> TRUE, model |-> last'.model,
                                   messages |-> TwoMessageList(last'.query),
                                   stream |-> FALSE]
             /\ OneChatCompletion
       /\ last'.op = "research_query_stream" =>
             /\ gen'.kind = "research_query_stream"
             /\ gen'.messages = TwoMessageList(gen'.query)
             /\ gen'.model = last'.model
             /\ OneChatCompletionStreamStep]_vars

\* A research stream for "b a" was drained: two different fragments reached the
\* caller in the order sent, and one request was counted.
C12_Witness ==
    /\ gen.kind = "research_query_stream"
    /\ gen.status = "done"
    /\ gen.query = <<"b", " ", "a">>
    /\ gen.emitted = << <<" ", "b">>, <<"a">> >>
    /\ remote.err = "none"
    /\ request_count = 1
    /\ create_calls = 1
    /\ total_cost > 0

\* The step read a line at the prompt.
LineRead == ui'.lines_read = ui.lines_read + 1

\* The step issued a research query for the line it read.
QueryIssued ==
    /\ ui'.queries = ui.queries + 1
    /\ gen'.kind = "research_query_stream"
    /\ gen'.status = "created"

\* C11 as stated: the loop ends on the first line equal to quit, exit or q; every
\* other line read issues a research query, whose streamed result and running
\* total are printed before the next line is read, also when the query fails;
\* and a session that had its client and ended by a quit word has printed a
\* final cost summary.
C11_InteractiveLoop ==
    [][/\ LineRead =>
             IF ui'.line \in {<<"q", "u", "i", "t">>, <<"e", "x", "i", "t">>, <<"q">>}
             THEN ui'.pc = "finally"
             ELSE QueryIssued
       /\ (ui.pc = "iterating" /\ gen'.status \in {"done", "failed"}) =>
             ui'.pc \in {"total", "input"}
       /\ ui.pc = "total" => (ui'.pc = "input" /\ ui'.totals = ui.totals + 1)
       /\ (ui'.pc = "exited" /\ ui'.goodbye) => ui'.final_summary.printed]_vars

\* The lines of InputLines that are a quit word once stripped and lower-cased.
QuitLines ==
    {<<"q", "u", "i", "t">>, <<"e", "x", "i", "t">>, <<"q">>, <<"E", "x", "i", "t">>,
     <<" ", "q", " ">>}

\* The lines that are blank once stripped.
BlankLines == {<<>>, <<" ">>}

\* The query of a line that is neither: the line without the blanks at its ends.
QueryOf(line) ==
    CASE line = <<"a">> -> <<"a">>
      [] line = <<" ", "a", " ">> -> <<"a">>
      [] line = <<"q", " ", "a">> -> <<"q", " ", "a">>

\* C11, amended: with its client made, the loop reads lines at the prompt only;
\* it ends on the first line that, stripped and lower-cased, is quit, exit or q
\* (or when the input ends), and reads no line and issues no query after that;
\* a line that is blank once stripped is refused and issues no query; every
\* other line issues one research query on the default model with the stripped
\* line; its fragments are printed as they come; when the stream is drained
\* the running total (total_cost, request_count) is printed, and when the
\* query fails an error is printed instead; either way the loop is back at the
\* prompt; on exit the final summary is printed exactly when the client has
\* counted a request, with the client's total_cost and request_count.
C11_InteractiveLoopAmended ==
    [][/\ LineRead =>
             /\ ui.pc = "input"
             /\ ui.has_client
             /\ CASE ui'.line \in QuitLines ->
                        /\ ui'.pc = "finally"
                        /\ ui'.goodbye
                        /\ ui'.queries = ui.queries
                        /\ UNCHANGED client_vars
                   [] ui'.line \in BlankLines ->
                        /\ ui'.pc = "input"
                        /\ ui'.invalid = ui.invalid + 1
                        /\ ui'.queries = ui.queries
                        /\ UNCHANGED client_vars
                   [] OTHER ->
                        /\ QueryIssued
                        /\ ui'.pc = "iterating"
                        /\ gen'.query = QueryOf(ui'.line)
                        /\ gen'.model = "x-ai/grok-4-fast"
                        /\ UNCHANGED <<total_cost, request_count, create_calls>>
       /\ ~LineRead => ui'.queries = ui.queries
       /\ (ui.pc = "iterating" /\ last'.outcome = "yield") =>
             /\ ui'.fragments = Append(ui.fragments, last'.value)
             /\ ui'.fragments = gen'.emitted
             /\ ui'.pc = "iterating"
       /\ (ui.pc = "iterating" /\ gen'.status = "done") =>
             /\ ui'.pc = "total"
             /\ ui'.errors = ui.errors
       /\ (ui.pc = "iterating" /\ gen'.status = "failed") =>
             /\ ui'.pc = "input"
             /\ ui'.errors = ui.errors + 1
             /\ ui'.totals = ui.totals
       /\ ui.pc = "total" =>
             /\ ui'.pc = "input"
             /\ ui'.totals = ui.totals + 1
             /\ ui'.running_total = [printed |-> TRUE, total_cost |-> total_cost,
                                     request_count |-> request_count]
             /\ UNCHANGED <<total_cost, request_count>>
       /\ ui.pc # "total" => ui'.totals = ui.totals
       /\ ui.pc \in {"finally", "exited"} =>
             /\ ui'.pc = "exited"
             /\ ui'.lines_read = ui.lines_read
             /\ UNCHANGED <<total_cost, request_count, create_calls>>
       /\ ui'.pc = "exited" =>
             /\ ui'.final_summary.printed = (ui'.has_client /\ request_count' > 0)
             /\ ui'.final_summary.printed =>
                   /\ ui'.final_summary.total_cost = total_cost'
                   /\ ui'.final_summary.request_count = request_count']_vars

\* A session of three lines: a query that was drained, a query that failed
\* after a fragment, and "Exit"; the final summary shows the one request.
C11_Witness ==
    /\ ui.pc = "exited"
    /\ ui.goodbye
    /\ ui.line = <<"E", "x", "i", "t">>
    /\ ui.lines_read = 3
    /\ ui.queries = 2
    /\ ui.totals = 1
    /\ ui.errors = 1
    /\ ui.fragments # <<>>
    /\ ui.final_summary.printed
    /\ ui.final_summary.request_count = 1

====
